---- MODULE Spec2Model ----
(***************************************************************************)
(* A model of the timer, event and storage utilities of cp949/mui:         *)
(*   - debounce            (src/unnamed/part_017, a port of lodash)        *)
(*   - EventEmitter        (src/unnamed/part_034, a port of eventemitter3) *)
(*   - Closables           (src/sub/mui/src/util/event-utils.ts)           *)
(*   - the storage hooks   (persistence/useStorageState.tsx,               *)
(*                          hooks/useSessionStorage.ts)                    *)
(* Every utility has its own specification (SpecDebounce, SpecEmitter,     *)
(* SpecClosables, SpecStorage); the variables of the other utilities stay  *)
(* at their initial value.                                                 *)
(***************************************************************************)
EXTENDS Integers, Sequences, FiniteSets, TLC

\* ------------------------------------------------------------------ bounds
\* The clock starts at StartTime (Date.now() is far above every wait) and
\* runs for Horizon milliseconds.
StartTime == 10
Horizon == 4
\* The registrations, emit calls and calls of returned functions made on an
\* EventEmitter, and how deep a listener's own emit may nest.
MaxRegs == 3
MaxEmits == 1
MaxUnsubs == 1
MaxDepth == 1
\* The mounted instances of each storage hook.
MaxInstances == 1
\* The useStorageState instances that share one key.
MaxSyncInstances == 2
\* The calls of copy made on one useClipboard.
MaxCopies == 3
\* The length of the texts another writer leaves under the key.
MaxTextLen == 3
\* The add, remove and close calls made on a Closables.
MaxClosableOps == 5
\* The number of calls, cancels and flushes made on the debounced function.
MaxOps == 4
\* The wait passed to debounce and the largest options.maxWait tried.
Wait == 2
MaxUserMaxWait == 3
PostponeTime == 2
MinVisibleTime == 1

\* JavaScript's undefined, for the number-valued variables.
Undefined == -1

Max(a, b) == IF a >= b THEN a ELSE b
Min(a, b) == IF a <= b THEN a ELSE b

VARIABLES
    \* --- debounce: the options, the closure's variables, the browser
    now,             \* Date.now()
    leading,         \* options.leading
    trailing,        \* options.trailing
    maxWait,         \* Math.max(options.maxWait, wait), or Undefined
    lastArgs,        \* the arguments of the latest call: its number
    lastCallTime,
    lastInvokeTime,
    result,
    timerId,         \* the id setTimeout returned last, or Undefined
    timers,          \* the browser's pending timeouts: records [id, due]
    ret,             \* what the latest call, cancel or flush returned
    dlog,            \* what happened: calls, invocations, cancels, flushes
    \* --- EventEmitter
    _events,         \* event name -> its listener holders, in order
    _eventsCount,
    handles,         \* the functions on, addListener and once have returned
    nreg,            \* the number of registrations made so far
    nemit,           \* the number of emit calls made by the application
    nunsub,          \* the number of calls of returned functions
    elog,            \* the emits and invocations of the emit call, if it
                     \* was the latest operation
    invoked,         \* registration -> how often its listener was invoked
    lastUnsub,       \* the latest call of a returned function, if it was the
                     \* latest operation: the registrations before it
    \* --- Closables
    store,           \* #store: a Set, in insertion order
    closedListeners, \* the listeners of 'closed' on #events
    closeTrigger,    \* #closeTrigger$ has been created
    notified,        \* how many 'closed' listeners and closeTrigger$ signals ran
    ran,             \* cleanup function -> how often it was invoked
    ncl,             \* the number of add, remove and close calls so far
    lastClose,       \* the latest close(), if it was the latest operation
    \* --- the storage hooks
    storage,         \* the Storage area: the string stored under the key, or Null
    sus,             \* useStorageState instance -> [mounted, initial, value]
    uss,             \* useSessionStorage instance -> [mounted, initial, value]
    escaped,         \* an exception reached the calling component
    lastAccess,      \* the latest hook operation and what it found before
    \* --- useClipboard
    clipboard,       \* 'clipboard' in navigator
    error,           \* the hook's error state
    copied,          \* the hook's copied state
    copyTimeout,     \* the hook's copyTimeout state: a timer id, or NoTimer
    clipTimers,      \* the ids of the timers that are set
    writes,          \* the writeText promises that are not settled
    copyThrew,       \* a call of copy threw
    ncopy,           \* the calls of copy so far
    lastCopy,        \* the latest failure of a copy, if it was the latest step
    \* --- useThrottledCallbackWithClearTimeout
    clock,           \* Date.now()
    active,          \* active.current
    latestInArgs,    \* latestInArgsRef.current: the number of a call, or NoArgs
    latestOutArgs,   \* latestOutArgsRef.current
    timeoutRef,      \* timeoutRef.current
    thTimers,        \* the timers that are set: [id, due]
    tlog,            \* the calls, clears, timer expiries and invocations so far
    \* --- useDebouncedCallback
    hookClock,       \* the browser's time
    hookLeading,     \* options.leading
    hookTrailing,    \* options.trailing
    hookTimeoutRef,  \* timeoutRef.current: a timer id, or NoTimeout
    lastArgsRef,     \* lastArgsRef.current: the number of a call, or EmptyArgs
    leadingCalledRef, \* leadingCalledRef.current
    hookTimers,      \* the timers that are set: [id, due]
    hlog,            \* the calls, cancels, timer expiries and invocations so far
    \* --- DebouncedButton, DebouncedIconButton
    btnClock,        \* the browser's time
    btnDisabled,     \* the disabled prop of the latest render
    debounceTimeout, \* debounceTimeout.current: a timer id, or BtnNoTimeout
    btnTimers,       \* the timers that are set: [id, due, disabled]
    blog,            \* the clicks, renders and onClick calls so far
    \* --- useTimeoutData
    tdClock,         \* the browser's time
    tdMounted,       \* the component is mounted
    message,         \* the message state: what the hook returns
    timerRef,        \* timerRef.current: a timer id, or TdNoTimer
    tdTimers,        \* the timers that are set: [id, due]
    tdlog,           \* the setMessage calls of the application so far
    \* --- useLoadingVisible
    lvClock,         \* Date.now()
    lvMounted,       \* the component is mounted
    paramLoading,    \* the paramLoading argument of the latest render
    loadingVisible,  \* the loadingVisible state: what the hook returns
    loadingTime,     \* the value of loadingTime$
    visibleStartTime,
    lvTimer,         \* the timer switchMap is subscribed to, or LvNoTimer
    shown,           \* when the flag last became true, and since when
                     \* loading was true then
    lvOps            \* the renders with a changed paramLoading so far

dvars == <<now, leading, trailing, maxWait, lastArgs, lastCallTime,
           lastInvokeTime, result, timerId, timers, ret, dlog>>
evars == <<_events, _eventsCount, handles, nreg, nemit, nunsub, elog, invoked,
           lastUnsub>>
cvars == <<store, closedListeners, closeTrigger, notified, ran, ncl, lastClose>>
svars == <<storage, sus, uss, escaped, lastAccess>>
bvars == <<clipboard, error, copied, copyTimeout, clipTimers, writes,
           copyThrew, ncopy, lastCopy>>
tvars == <<clock, active, latestInArgs, latestOutArgs, timeoutRef, thTimers,
           tlog>>
hvars == <<hookClock, hookLeading, hookTrailing, hookTimeoutRef, lastArgsRef,
           leadingCalledRef, hookTimers, hlog>>
nvars == <<btnClock, btnDisabled, debounceTimeout, btnTimers, blog>>
mvars == <<tdClock, tdMounted, message, timerRef, tdTimers, tdlog>>
lvars == <<lvClock, lvMounted, paramLoading, loadingVisible, loadingTime,
           visibleStartTime, lvTimer, shown, lvOps>>
vars == <<dvars, evars, cvars, svars, bvars, tvars, hvars, nvars, mvars, lvars>>
\* What the actions of one utility leave alone: the other utilities.
DbOthers == <<evars, cvars, svars, bvars, tvars, hvars, nvars, mvars, lvars>>
EmOthers == <<dvars, cvars, svars, bvars, tvars, hvars, nvars, mvars, lvars>>
ClOthers == <<dvars, evars, svars, bvars, tvars, hvars, nvars, mvars, lvars>>
StOthers == <<dvars, evars, cvars, bvars, tvars, hvars, nvars, mvars, lvars>>
CbOthers == <<dvars, evars, cvars, svars, tvars, hvars, nvars, mvars, lvars>>
ThOthers == <<dvars, evars, cvars, svars, bvars, hvars, nvars, mvars, lvars>>
HkOthers == <<dvars, evars, cvars, svars, bvars, tvars, nvars, mvars, lvars>>
BtnOthers == <<dvars, evars, cvars, svars, bvars, tvars, hvars, mvars, lvars>>
TdOthers == <<dvars, evars, cvars, svars, bvars, tvars, hvars, nvars, lvars>>
LvOthers == <<dvars, evars, cvars, svars, bvars, tvars, hvars, nvars, mvars>>

\* ---------------------------------------------------------------- debounce
\* The closure's variables and the browser's timers as one value, so that the
\* inner functions of debounce compose as the code composes them.
DbState ==
    [lastArgs |-> lastArgs, lastCallTime |-> lastCallTime,
     lastInvokeTime |-> lastInvokeTime, result |-> result, timerId |-> timerId,
     timers |-> timers, ret |-> ret, dlog |-> dlog]

DbStore(s) ==
    /\ lastArgs' = s.lastArgs
    /\ lastCallTime' = s.lastCallTime
    /\ lastInvokeTime' = s.lastInvokeTime
    /\ result' = s.result
    /\ timerId' = s.timerId
    /\ timers' = s.timers
    /\ ret' = s.ret
    /\ dlog' = s.dlog

\* func: the result identifies the arguments it was applied to.
func(args) == args

Ev(op, arg) == [op |-> op, t |-> now, arg |-> arg]

\* setTimeout(timerExpired, delay): a new pending timeout; its id is returned.
FreeId(s) == CHOOSE i \in 1..(Cardinality(s.timers) + 1) :
                 \A tm \in s.timers : tm.id # i
setTimeout(s, delay) ==
    [s EXCEPT !.timerId = FreeId(s),
              !.timers = @ \cup {[id |-> FreeId(s), due |-> now + Max(delay, 0)]}]

\* clearTimeout(timerId)
clearTimeout(s) ==
    [s EXCEPT !.timers = {tm \in @ : tm.id # s.timerId}]

\* A slip: the arguments are not forgotten when func is invoked.
invokeFunc_KeepsArgs(s, time) ==
    [s EXCEPT !.lastInvokeTime = time,
              !.result = func(s.lastArgs),
              !.ret = func(s.lastArgs),
              !.dlog = Append(@, Ev("invoke", s.lastArgs))]

invokeFunc(s, time) ==
    [s EXCEPT !.lastArgs = Undefined,
              !.lastInvokeTime = time,
              !.result = func(s.lastArgs),
              !.ret = func(s.lastArgs),
              !.dlog = Append(@, Ev("invoke", s.lastArgs))]

leadingEdge(s, time) ==
    LET s1 == setTimeout([s EXCEPT !.lastInvokeTime = time], Wait)
    IN  IF leading THEN invokeFunc(s1, time) ELSE [s1 EXCEPT !.ret = s1.result]

\* lastCallTime || 0
OrZero(v) == IF v = Undefined \/ v = 0 THEN 0 ELSE v

\* A slip: maxWait is left out of the remaining wait.
remainingWait_NoMaxWait(s, time) ==
    Wait - (time - OrZero(s.lastCallTime))

remainingWait(s, time) ==
    LET timeSinceLastCall == time - OrZero(s.lastCallTime)
        timeSinceLastInvoke == time - s.lastInvokeTime
        timeWaiting == Wait - timeSinceLastCall
    IN  IF maxWait # Undefined
        THEN Min(timeWaiting, maxWait - timeSinceLastInvoke)
        ELSE timeWaiting

shouldInvoke(s, time) ==
    LET timeSinceLastCall == time - OrZero(s.lastCallTime)
        timeSinceLastInvoke == time - s.lastInvokeTime
    IN  \/ s.lastCallTime = Undefined
        \/ timeSinceLastCall >= Wait
        \/ timeSinceLastCall < 0
        \/ (maxWait # Undefined /\ timeSinceLastInvoke >= maxWait)

\* A slip: the trailing option is not looked at.
trailingEdge_IgnoresTrailing(s, time) ==
    LET s1 == [s EXCEPT !.timerId = Undefined]
    IN  IF s1.lastArgs # Undefined
        THEN invokeFunc(s1, time)
        ELSE [s1 EXCEPT !.lastArgs = Undefined, !.ret = s1.result]

trailingEdge(s, time) ==
    LET s1 == [s EXCEPT !.timerId = Undefined]
    IN  IF trailing /\ s1.lastArgs # Undefined
        THEN invokeFunc(s1, time)
        ELSE [s1 EXCEPT !.lastArgs = Undefined, !.ret = s1.result]

\* A slip: the timer does not ask whether a later call restarted the wait.
timerExpired_NoRestart(s) ==
    trailingEdge(s, now)

timerExpired(s) ==
    IF shouldInvoke(s, now)
    THEN trailingEdge(s, now)
    ELSE setTimeout(s, remainingWait(s, now))

\* A slip: cancel leaves the timeout and the arguments in place.
cancel_KeepsPending(s) ==
    [s EXCEPT !.lastInvokeTime = 0,
              !.lastCallTime = Undefined,
              !.ret = Undefined]

cancel(s) ==
    LET s1 == IF s.timerId # Undefined THEN clearTimeout(s) ELSE s
    IN  [s1 EXCEPT !.lastInvokeTime = 0,
                   !.lastArgs = Undefined,
                   !.lastCallTime = Undefined,
                   !.timerId = Undefined,
                   !.ret = Undefined]

flush(s) ==
    IF s.timerId = Undefined THEN [s EXCEPT !.ret = s.result]
    ELSE trailingEdge(s, now)

debounced(s, args) ==
    LET time == now
        isInvoking == shouldInvoke(s, time)
        s1 == [s EXCEPT !.lastArgs = args, !.lastCallTime = time]
    IN  IF isInvoking /\ s1.timerId = Undefined
        THEN leadingEdge(s1, s1.lastCallTime)
        ELSE IF isInvoking /\ maxWait # Undefined
        THEN invokeFunc(setTimeout(clearTimeout(s1), Wait), s1.lastCallTime)
        ELSE LET s2 == IF s1.timerId = Undefined THEN setTimeout(s1, Wait)
                       ELSE s1
             IN  [s2 EXCEPT !.ret = s2.result]

\* --- what the log says
NumOps == Cardinality({i \in DOMAIN dlog :
                          dlog[i].op \in {"call", "cancel", "flush"}})
NumCalls == Cardinality({i \in DOMAIN dlog : dlog[i].op = "call"})

\* The closure right after debounce(func, wait, options) returned.
DbCreated ==
    /\ now = StartTime
    /\ lastArgs = Undefined
    /\ lastCallTime = Undefined
    /\ lastInvokeTime = 0
    /\ result = Undefined
    /\ timerId = Undefined
    /\ timers = {}
    /\ ret = Undefined
    /\ dlog = <<>>

DbInit ==
    /\ leading \in BOOLEAN
    /\ trailing \in BOOLEAN
    /\ maxWait \in {Undefined} \cup {Max(m, Wait) : m \in {1, MaxUserMaxWait}}
    /\ DbCreated

\* The debounced function as the other specifications leave it: never called.
DbIdle ==
    /\ leading = FALSE /\ trailing = TRUE /\ maxWait = Undefined
    /\ DbCreated

\* The application calls the debounced function; the k-th call passes k.
DbCall ==
    /\ NumOps < MaxOps
    /\ LET k == NumCalls + 1
       IN  DbStore(debounced([DbState EXCEPT !.dlog = Append(@, Ev("call", k))], k))
    /\ UNCHANGED <<now, leading, trailing, maxWait>>
    /\ UNCHANGED DbOthers

DbCancel ==
    /\ NumOps < MaxOps
    /\ DbStore(cancel([DbState EXCEPT !.dlog = Append(@, Ev("cancel", 0))]))
    /\ UNCHANGED <<now, leading, trailing, maxWait>>
    /\ UNCHANGED DbOthers

DbFlush ==
    /\ NumOps < MaxOps
    /\ DbStore(flush([DbState EXCEPT !.dlog = Append(@, Ev("flush", 0))]))
    /\ UNCHANGED <<now, leading, trailing, maxWait>>
    /\ UNCHANGED DbOthers

\* The browser runs a timeout that is due: timerExpired.
DbTimer ==
    /\ \E tm \in timers :
          /\ tm.due <= now
          /\ DbStore(timerExpired([DbState EXCEPT
                                       !.timers = @ \ {tm},
                                       !.dlog = Append(@, Ev("timer", 0))]))
    /\ UNCHANGED <<now, leading, trailing, maxWait>>
    /\ UNCHANGED DbOthers

\* A millisecond passes; the browser runs a timeout when it is due.
DbTick ==
    /\ now < StartTime + Horizon
    /\ \A tm \in timers : tm.due > now
    /\ now' = now + 1
    /\ UNCHANGED <<leading, trailing, maxWait, lastArgs, lastCallTime,
                   lastInvokeTime, result, timerId, timers, ret, dlog>>
    /\ UNCHANGED DbOthers

DbNext == DbCall \/ DbCancel \/ DbFlush \/ DbTimer \/ DbTick

\* ------------------------------------------------------------ EventEmitter
EventNames == {"a", "b"}
\* The listener functions: "f" only records its call; "r" also emits the
\* event it was called for once more, unless MaxDepth emits are running.
Listeners == {"f", "r"}
\* The context argument: no caller in the repository passes one.
Contexts == {"none"}
NoUnsub == [rid |-> 0, before |-> {}]

\* The emitter's fields and the record of what the listeners saw, as one
\* value that the methods pass along.
EmState == [ev |-> _events, cnt |-> _eventsCount, log |-> elog, inv |-> invoked]

EmStore(s) ==
    /\ _events' = s.ev
    /\ _eventsCount' = s.cnt
    /\ elog' = s.log
    /\ invoked' = s.inv

\* The registrations an event has, and all of them.
RidsOf(ev, evt) == [i \in DOMAIN ev[evt] |-> ev[evt][i].rid]
Registered == UNION {{_events[e][i].rid : i \in DOMAIN _events[e]} : e \in EventNames}

addListener_(s, event, fn, context, once, rid) ==
    LET listener == [fn |-> fn,
                     context |-> IF context = "none" THEN "emitter" ELSE context,
                     once |-> once, rid |-> rid]
    IN  IF s.ev[event] = <<>>
        THEN [s EXCEPT !.ev[event] = <<listener>>, !.cnt = @ + 1]
        ELSE [s EXCEPT !.ev[event] = Append(@, listener)]

clearEvent_(s, evt) ==
    IF s.cnt - 1 = 0
    THEN [s EXCEPT !.cnt = 0, !.ev = [e \in EventNames |-> <<>>]]
    ELSE [s EXCEPT !.cnt = @ - 1, !.ev[evt] = <<>>]

\* The holders removeListener keeps.
Kept(listeners, fn, context, once) ==
    SelectSeq(listeners,
              LAMBDA h : \/ h.fn # fn
                         \/ (once /\ ~h.once)
                         \/ (context # "none" /\ h.context # context))

\* removeListener(event, fn, context, once); fn = "none" when it is left out.
removeListener(s, event, fn, context, once) ==
    LET listeners == s.ev[event]
        events == Kept(listeners, fn, context, once)
    IN  IF listeners = <<>> THEN s
        ELSE IF fn = "none" THEN clearEvent_(s, event)
        ELSE IF events # <<>> THEN [s EXCEPT !.ev[event] = events]
        ELSE clearEvent_(s, event)

RECURSIVE emit(_, _, _, _), EmitFrom(_, _, _, _, _, _, _)

\* A slip: the loop reads _events again at every step instead of the array
\* that emit read when it was called.
EmitFrom_Live(s, event, listeners, i, args, eid, depth) ==
    IF i > Len(s.ev[event]) THEN s
    ELSE LET h == s.ev[event][i]
             s1 == IF h.once THEN removeListener(s, event, h.fn, "none", TRUE)
                   ELSE s
             s2 == [s1 EXCEPT
                       !.log = Append(@, [op |-> "invoke", eid |-> eid,
                                          rid |-> h.rid, fn |-> h.fn,
                                          event |-> event, args |-> args,
                                          regs |-> <<>>]),
                       !.inv[h.rid] = @ + 1]
             s3 == IF h.fn = "r" /\ depth < MaxDepth
                   THEN emit(s2, event, args, depth + 1)
                   ELSE s2
         IN  EmitFrom(s3, event, listeners, i + 1, args, eid, depth)

\* The body of emit's loop from index i on; listeners is the value emit read
\* from _events when it was called, eid numbers the emit call.
EmitFrom(s, event, listeners, i, args, eid, depth) ==
    IF i > Len(listeners) THEN s
    ELSE LET h == listeners[i]
             s1 == IF h.once THEN removeListener(s, event, h.fn, "none", TRUE)
                   ELSE s
             \* listeners[i].fn.apply(listeners[i].context, args)
             s2 == [s1 EXCEPT
                       !.log = Append(@, [op |-> "invoke", eid |-> eid,
                                          rid |-> h.rid, fn |-> h.fn,
                                          event |-> event, args |-> args,
                                          regs |-> <<>>]),
                       !.inv[h.rid] = @ + 1]
             s3 == IF h.fn = "r" /\ depth < MaxDepth
                   THEN emit(s2, event, args, depth + 1)
                   ELSE s2
         IN  EmitFrom(s3, event, listeners, i + 1, args, eid, depth)

emit(s, event, args, depth) ==
    LET listeners == s.ev[event]
        eid == Cardinality({i \in DOMAIN s.log : s.log[i].op = "emit"}) + 1
        s1 == [s EXCEPT !.log = Append(@, [op |-> "emit", eid |-> eid,
                                           rid |-> 0, fn |-> "none",
                                           event |-> event, args |-> args,
                                           regs |-> RidsOf(s.ev, event)])]
    IN  IF listeners = <<>> THEN s1
        ELSE EmitFrom(s1, event, listeners, 1, args, eid, depth)

EmInit ==
    /\ _events = [e \in EventNames |-> <<>>]
    /\ _eventsCount = 0
    /\ handles = {}
    /\ nreg = 0
    /\ nemit = 0
    /\ nunsub = 0
    /\ elog = <<>>
    /\ invoked = [r \in 1..MaxRegs |-> 0]
    /\ lastUnsub = NoUnsub

\* on(event, fn, context) and addListener(event, fn, context)
EmOn ==
    /\ nreg < MaxRegs
    /\ \E event \in EventNames, fn \in Listeners, context \in Contexts :
          /\ EmStore(addListener_([EmState EXCEPT !.log = <<>>], event, fn, context, FALSE, nreg + 1))
          /\ handles' = handles \cup {[event |-> event, fn |-> fn,
                                        context |-> context, once |-> FALSE,
                                        rid |-> nreg + 1]}
    /\ nreg' = nreg + 1
    /\ lastUnsub' = NoUnsub
    /\ UNCHANGED <<nemit, nunsub>>
    /\ UNCHANGED EmOthers

\* once(event, fn, context)
EmOnce ==
    /\ nreg < MaxRegs
    /\ \E event \in EventNames, fn \in Listeners, context \in Contexts :
          /\ EmStore(addListener_([EmState EXCEPT !.log = <<>>], event, fn, context, TRUE, nreg + 1))
          /\ handles' = handles \cup {[event |-> event, fn |-> fn,
                                        context |-> context, once |-> TRUE,
                                        rid |-> nreg + 1]}
    /\ nreg' = nreg + 1
    /\ lastUnsub' = NoUnsub
    /\ UNCHANGED <<nemit, nunsub>>
    /\ UNCHANGED EmOthers

\* The application calls emit(event, args); the k-th call passes k.
EmEmit ==
    /\ nemit < MaxEmits
    /\ \E event \in EventNames :
          EmStore(emit([EmState EXCEPT !.log = <<>>], event, nemit + 1, 0))
    /\ nemit' = nemit + 1
    /\ lastUnsub' = NoUnsub
    /\ UNCHANGED <<handles, nreg, nunsub>>
    /\ UNCHANGED EmOthers

\* The function that on, addListener or once returned is called:
\* removeListener(event, fn, context) and removeListener(event, fn, context, true).
EmUnsubscribe ==
    /\ nunsub < MaxUnsubs
    /\ \E h \in handles :
          /\ EmStore(removeListener([EmState EXCEPT !.log = <<>>], h.event, h.fn, h.context, h.once))
          /\ lastUnsub' = [rid |-> h.rid, before |-> Registered]
    /\ nunsub' = nunsub + 1
    /\ UNCHANGED <<handles, nreg, nemit>>
    /\ UNCHANGED EmOthers

EmNext == EmOn \/ EmOnce \/ EmEmit \/ EmUnsubscribe

\* --------------------------------------------------------------- Closables
\* The cleanup functions the application registers; "bad" throws when it is
\* called, the others return.
Cleanups == {"c1", "c2", "bad"}
Throws(fn) == fn = "bad"
NoClose == [registered |-> <<>>, called |-> <<>>, threw |-> FALSE]

InStore(st, fn) == \E i \in DOMAIN st : st[i] = fn

\* Set.prototype.add and delete on #store: insertion order, no duplicates.
SetAdd(st, fn) == IF InStore(st, fn) THEN st ELSE Append(st, fn)
SetDelete(st, fn) == SelectSeq(st, LAMBDA x : x # fn)

RECURSIVE ForEachCleanup(_, _)
\* Array.from(this.#store).forEach((fn) => fn()): the calls made from index i
\* of the copy on; a cleanup that throws ends the loop.
ForEachCleanup(arr, i) ==
    IF i > Len(arr) THEN <<>>
    ELSE IF Throws(arr[i]) THEN <<arr[i]>>
    ELSE <<arr[i]>> \o ForEachCleanup(arr, i + 1)

ClInit ==
    /\ store = <<>>
    /\ closedListeners = 0
    /\ closeTrigger = FALSE
    /\ notified = 0
    /\ ran = [fn \in Cleanups |-> 0]
    /\ ncl = 0
    /\ lastClose = NoClose

\* add(...closables), with one function
ClAdd ==
    /\ ncl < MaxClosableOps
    /\ \E fn \in Cleanups : store' = SetAdd(store, fn)
    /\ ncl' = ncl + 1
    /\ lastClose' = NoClose
    /\ UNCHANGED <<closedListeners, closeTrigger, notified, ran>>
    /\ UNCHANGED ClOthers

\* remove(...closables), with one function
ClRemove ==
    /\ ncl < MaxClosableOps
    /\ \E fn \in Cleanups : store' = SetDelete(store, fn)
    /\ ncl' = ncl + 1
    /\ lastClose' = NoClose
    /\ UNCHANGED <<closedListeners, closeTrigger, notified, ran>>
    /\ UNCHANGED ClOthers

\* events.on('closed', listener), or the first read of closeTrigger$
ClObserve ==
    /\ ncl < MaxClosableOps
    /\ \/ closedListeners' = closedListeners + 1 /\ UNCHANGED closeTrigger
       \/ ~closeTrigger /\ closeTrigger' = TRUE /\ UNCHANGED closedListeners
    /\ ncl' = ncl + 1
    /\ lastClose' = NoClose
    /\ UNCHANGED <<store, notified, ran>>
    /\ UNCHANGED ClOthers

\* What close() does to the store once the cleanups in called have run:
\* cleared, unless the last of them threw.
StoreAfterClose(st, called) ==
    IF called # <<>> /\ Throws(called[Len(called)]) THEN st ELSE <<>>

\* close()
ClClose ==
    /\ ncl < MaxClosableOps
    /\ LET called == ForEachCleanup(store, 1)
       IN  /\ notified' = notified + closedListeners + (IF closeTrigger THEN 1 ELSE 0)
           /\ closedListeners' = 0
           /\ closeTrigger' = FALSE
           /\ ran' = [fn \in Cleanups |->
                        ran[fn] + Cardinality({i \in DOMAIN called : called[i] = fn})]
           /\ store' = StoreAfterClose(store, called)
           /\ lastClose' = [registered |-> store, called |-> called,
                            threw |-> called # <<>> /\ Throws(called[Len(called)])]
    /\ ncl' = ncl + 1
    /\ UNCHANGED ClOthers

ClNext == ClAdd \/ ClRemove \/ ClObserve \/ ClClose

\* ------------------------------------------------------- the storage hooks
\* JavaScript values: null, undefined, and strings as sequences of characters
\* ("q" stands for the double quote).
Null == <<"null">>
Undef == <<"undefined">>
Chars == {"a", "b"}
AppValues == {<<"a">>, <<"b">>}

\* What a call that may throw gives back: the exception, or the value and
\* the Storage area after it.
Returned(v, area) == [exc |-> FALSE, val |-> v, area |-> area]
Thrown(area) == [exc |-> TRUE, val |-> Undef, area |-> area]

\* Storage.getItem, setItem and removeItem; fails: the browser refuses the
\* access (private mode, quota) and the method throws.
getItem(area, fails) == IF fails THEN Thrown(area) ELSE Returned(area, area)
setItem(area, value, fails) == IF fails THEN Thrown(area) ELSE Returned(Undef, value)
removeItem(area, fails) == IF fails THEN Thrown(area) ELSE Returned(Undef, Null)

JSON_stringify(v) ==
    IF v = Null THEN <<"n", "u", "l", "l">> ELSE <<"q">> \o v \o <<"q">>

\* JSON.parse of what the hooks can find stored: null, a quoted string, or
\* a text that is no JSON (a SyntaxError).
JSON_parse(text, area) ==
    IF text = <<"n", "u", "l", "l">> THEN Returned(Null, area)
    ELSE IF /\ Len(text) >= 2 /\ text[1] = "q" /\ text[Len(text)] = "q"
            /\ \A i \in 2..(Len(text) - 1) : text[i] \in Chars
    THEN Returned(SubSeq(text, 2, Len(text) - 1), area)
    ELSE Thrown(area)

Instances == 1..MaxInstances
SyncInstances == 1..MaxSyncInstances
\* What a component passes as the initializer of useStorageState and as the
\* initialValue of useSessionStorage: a default, or nothing.
InitialValues == {Null, <<"a">>}
SessionInitialValues == {Undef, <<"a">>}
Unmounted == [mounted |-> FALSE, initial |-> Undef, value |-> Undef]

\* --- the codecs
CODEC_STRING == "CODEC_STRING"
CODEC_JSON == "CODEC_JSON"

CODEC_STRING_parse(value, area) == Returned(value, area)

\* A slip: JSON.parse outside the try (what CODEC_JSON_STRICT does).
CODEC_JSON_parse_NoCatch(value, area) == JSON_parse(value, area)

CODEC_JSON_parse(value, area) ==
    LET r == JSON_parse(value, area)
    IN  IF r.exc THEN Returned(Null, area) ELSE r

parse(codec, value, area) ==
    IF codec = CODEC_STRING THEN CODEC_STRING_parse(value, area)
    ELSE CODEC_JSON_parse(value, area)
stringify(codec, value) ==
    IF codec = CODEC_STRING THEN value ELSE JSON_stringify(value)

encode(codec, value) == IF value = Null THEN Null ELSE stringify(codec, value)
decode(codec, value, area) ==
    IF value = Null THEN Returned(Null, area) ELSE parse(codec, value, area)

\* The texts of at most MaxTextLen characters over an alphabet.
RECURSIVE TextsOver(_, _)
TextsOver(alphabet, n) ==
    IF n = 0 THEN {<<>>}
    ELSE LET shorter == TextsOver(alphabet, n - 1)
         IN  shorter \cup {Append(t, c) : t \in shorter, c \in alphabet}
Texts == TextsOver({"q", "a"}, MaxTextLen) \cup {<<"n", "u", "l", "l">>}

\* --- persistence/useStorageState.tsx
\* A slip: getItem outside the try.
getSnapshot_NoCatch(area, fails) == getItem(area, fails)

getSnapshot(area, fails) ==
    LET r == getItem(area, fails)
    IN  IF r.exc THEN Returned(Null, area) ELSE r

\* getSnapshot(area, key) ?? encodedInitialValue
getKeySnapshot(area, codec, initialValue, fails) ==
    LET r == getSnapshot(area, fails)
    IN  IF r.exc THEN r
        ELSE IF r.val = Null THEN Returned(encode(codec, initialValue), area)
        ELSE r

\* A slip: the change is not announced to the current tab.
setValue_NoEmit(area, value, fails) ==
    LET w == IF value = Null THEN removeItem(area, fails)
             ELSE setItem(area, value, fails)
    IN  IF w.exc THEN Returned(FALSE, area) ELSE Returned(FALSE, w.area)

\* setValue; .val tells whether emitCurrentTabStorageChange(key) was reached.
setValue(area, value, fails) ==
    LET w == IF value = Null THEN removeItem(area, fails)
             ELSE setItem(area, value, fails)
    IN  IF w.exc THEN Returned(FALSE, area) ELSE Returned(TRUE, w.area)

\* One render of an instance: useSyncExternalStore reads the snapshot and
\* the codec decodes it.
Render(codec, inst, area, fails) ==
    LET r == getKeySnapshot(area, codec, inst.initial, fails)
        d == decode(codec, r.val, area)
    IN  IF r.exc \/ d.exc THEN [exc |-> TRUE, inst |-> inst]
        ELSE [exc |-> FALSE, inst |-> [inst EXCEPT !.value = d.val]]

\* --- hooks/useSessionStorage.ts
\* The initializer: the stored value, or initialValue, which it stores.
initializer(area, initialValue, failGet, failSet) ==
    LET g == getItem(area, failGet)
        p == JSON_parse(g.val, area)
        w == setItem(area, JSON_stringify(initialValue), failSet)
    IN  IF g.exc THEN Returned(initialValue, area)
        ELSE IF g.val # Null
        THEN (IF p.exc THEN Returned(initialValue, area) ELSE p)
        ELSE IF initialValue = Undef THEN Returned(initialValue, area)
        ELSE IF w.exc THEN Returned(initialValue, area)
        ELSE Returned(initialValue, w.area)

\* A slip: the value is stored and the state is left as it was.
set_StorageOnly(area, state, newState, fails) ==
    LET value == JSON_stringify(newState)
        w == setItem(area, value, fails)
    IN  IF newState = Undef THEN Returned(state, area)
        ELSE IF w.exc THEN Returned(state, area)
        ELSE Returned(state, w.area)

\* set(newState): .val is the state after it.
set(area, state, newState, fails) ==
    LET value == JSON_stringify(newState)
        w == setItem(area, value, fails)
        p == JSON_parse(value, w.area)
    IN  IF newState = Undef THEN Returned(state, area)
        ELSE IF w.exc THEN Returned(state, area)
        ELSE IF p.exc THEN Returned(state, w.area)
        ELSE p

\* remove(): .val is the state after it.
remove(area, state, fails) ==
    LET w == removeItem(area, fails)
    IN  IF w.exc THEN Returned(state, area) ELSE Returned(Undef, w.area)

NoAccess == [op |-> "none", failed |-> FALSE, hook |-> "none", inst |-> 0,
             arg |-> Undef, storage |-> Null, sus |-> <<>>, uss |-> <<>>]
\* A failed access remembers what there was before it.
Access(op, failed, hook, i) ==
    IF ~failed THEN NoAccess
    ELSE IF op = "read"
    THEN [NoAccess EXCEPT !.op = op, !.failed = TRUE, !.hook = hook, !.inst = i]
    ELSE [op |-> op, failed |-> TRUE, hook |-> hook, inst |-> i,
          arg |-> Undef, storage |-> storage, sus |-> sus, uss |-> uss]
\* A render whose read went through remembers what it found stored.
ReadOf(i, found) ==
    [NoAccess EXCEPT !.op = "read", !.hook = "useStorageState", !.inst = i,
                     !.arg = found]
\* A setter call whose accesses all went through remembers what it wrote.
Written(hook, v) == [NoAccess EXCEPT !.op = "write", !.hook = hook, !.arg = v]

StInit ==
    /\ storage = Null
    /\ sus = [i \in Instances \cup SyncInstances |-> Unmounted]
    /\ uss = [j \in Instances \cup SyncInstances |-> Unmounted]
    /\ escaped = FALSE
    /\ lastAccess = NoAccess

\* A component with useStorageState mounts: the hook reads the snapshot and
\* returns the decoded value.
SusMountIn(I, codec) ==
    /\ \E i \in I, initialValue \in InitialValues, fails \in BOOLEAN :
          /\ ~sus[i].mounted
          /\ LET r == Render(codec, [mounted |-> TRUE, initial |-> initialValue,
                                     value |-> Undef], storage, fails)
             IN  /\ sus' = [sus EXCEPT ![i] = r.inst]
                 /\ escaped' = (escaped \/ r.exc)
          /\ lastAccess' = IF fails THEN Access("read", fails, "useStorageState", i)
                            ELSE ReadOf(i, storage)
    /\ UNCHANGED <<storage, uss>>
    /\ UNCHANGED StOthers

\* The component renders again.
SusRenderIn(I, codec) ==
    /\ \E i \in I, fails \in BOOLEAN :
          /\ sus[i].mounted
          /\ LET r == Render(codec, sus[i], storage, fails)
             IN  /\ sus' = [sus EXCEPT ![i] = r.inst]
                 /\ escaped' = (escaped \/ r.exc)
          /\ lastAccess' = IF fails THEN Access("read", fails, "useStorageState", i)
                            ELSE ReadOf(i, storage)
    /\ UNCHANGED <<storage, uss>>
    /\ UNCHANGED StOthers

SusUnmountIn(I) ==
    /\ \E i \in I :
          /\ sus[i].mounted
          /\ sus' = [sus EXCEPT ![i] = Unmounted]
    /\ lastAccess' = NoAccess
    /\ UNCHANGED <<storage, uss, escaped>>
    /\ UNCHANGED StOthers

\* The setter of a mounted useStorageState instance: setValue, and after a
\* write that went through every subscribed instance renders again.
SusSetIn(I, codec) ==
    /\ \E i \in I, v \in AppValues \cup {Null},
          failSet \in BOOLEAN, failGet \in BOOLEAN :
          /\ sus[i].mounted
          /\ failSet => ~failGet    \* nothing is read after a failed write
          /\ LET w == setValue(storage, encode(codec, v), failSet)
                 rs == [k \in DOMAIN sus |->
                          IF w.val /\ sus[k].mounted
                          THEN Render(codec, sus[k], w.area, failGet)
                          ELSE [exc |-> FALSE, inst |-> sus[k]]]
             IN  /\ storage' = w.area
                 /\ sus' = [k \in DOMAIN sus |-> rs[k].inst]
                 /\ escaped' = (escaped \/ w.exc \/ \E k \in DOMAIN sus : rs[k].exc)
          /\ lastAccess' = IF failSet \/ failGet
                            THEN Access("write", failSet, "useStorageState", i)
                            ELSE Written("useStorageState", v)
    /\ UNCHANGED uss
    /\ UNCHANGED StOthers

\* The components of one page, each with one instance of the hook.
SusMount == SusMountIn(Instances, CODEC_STRING)
SusRender == SusRenderIn(Instances, CODEC_STRING)
SusUnmount == SusUnmountIn(Instances)
SusSet == SusSetIn(Instances, CODEC_STRING)

\* Several components with useStorageState on the same area and key.
SyncMount == SusMountIn(SyncInstances, CODEC_STRING)
SyncRender == SusRenderIn(SyncInstances, CODEC_STRING)
SyncUnmount == SusUnmountIn(SyncInstances)
SyncSet == SusSetIn(SyncInstances, CODEC_STRING)

\* A component with useStorageState and CODEC_JSON, on a key under which
\* another writer (another program, an older version) leaves any text.
JsonMount == SusMountIn(Instances, CODEC_JSON)
JsonRender == SusRenderIn(Instances, CODEC_JSON)
JsonUnmount == SusUnmountIn(Instances)
JsonSet == SusSetIn(Instances, CODEC_JSON)
JsonStore ==
    /\ \E text \in Texts : storage' = text
    /\ lastAccess' = NoAccess
    /\ UNCHANGED <<sus, uss, escaped>>
    /\ UNCHANGED StOthers

\* A component with useSessionStorage mounts: the state initializer runs, and
\* the layout effect runs it once more.
UssMount ==
    /\ \E j \in Instances, initialValue \in SessionInitialValues,
          failGet \in BOOLEAN, failSet \in BOOLEAN :
          /\ ~uss[j].mounted
          /\ LET r1 == initializer(storage, initialValue, failGet, failSet)
                 r2 == initializer(r1.area, initialValue, failGet, failSet)
             IN  /\ storage' = r2.area
                 /\ uss' = [uss EXCEPT ![j] = [mounted |-> TRUE,
                                               initial |-> initialValue,
                                               value |-> r2.val]]
                 /\ escaped' = (escaped \/ r1.exc \/ r2.exc)
          /\ lastAccess' = Access("read", failGet, "useSessionStorage", j)
    /\ UNCHANGED sus
    /\ UNCHANGED StOthers

UssUnmount ==
    /\ \E j \in Instances :
          /\ uss[j].mounted
          /\ uss' = [uss EXCEPT ![j] = Unmounted]
    /\ lastAccess' = NoAccess
    /\ UNCHANGED <<storage, sus, escaped>>
    /\ UNCHANGED StOthers

UssSet ==
    /\ \E j \in Instances, v \in AppValues \cup {Undef}, fails \in BOOLEAN :
          /\ uss[j].mounted
          /\ LET r == set(storage, uss[j].value, v, fails)
             IN  /\ storage' = r.area
                 /\ uss' = [uss EXCEPT ![j].value = IF r.exc THEN @ ELSE r.val]
                 /\ escaped' = (escaped \/ r.exc)
          /\ lastAccess' = Access("write", fails /\ v # Undef, "useSessionStorage", j)
    /\ UNCHANGED sus
    /\ UNCHANGED StOthers

UssRemove ==
    /\ \E j \in Instances, fails \in BOOLEAN :
          /\ uss[j].mounted
          /\ LET r == remove(storage, uss[j].value, fails)
             IN  /\ storage' = r.area
                 /\ uss' = [uss EXCEPT ![j].value = IF r.exc THEN @ ELSE r.val]
                 /\ escaped' = (escaped \/ r.exc)
          /\ lastAccess' = Access("write", fails, "useSessionStorage", j)
    /\ UNCHANGED sus
    /\ UNCHANGED StOthers

\* --- hooks/useObservableSessionStorage.tsx
\* The instances are useSessionStorage instances whose initialValue is the
\* default; a mounted instance has its onChange on the emitter of the key.
ObsDefaults == AppValues
ObsHook == "useObservableSessionStorage"

\* What the hook returns: value ?? defaultValueRef.current
ObsValue(inst) ==
    IF inst.value \in {Null, Undef} THEN inst.initial ELSE inst.value

\* emitter.emit(key, value): the onChange of every mounted instance, from
\* instance k on, calls its setValue(value).
RECURSIVE EmitChange(_, _, _, _, _)
EmitChange(area, insts, k, value, fails) ==
    IF k \notin DOMAIN insts THEN [area |-> area, insts |-> insts]
    ELSE IF ~insts[k].mounted THEN EmitChange(area, insts, k + 1, value, fails)
    ELSE LET r == set(area, insts[k].value, value, fails)
         IN  EmitChange(r.area, [insts EXCEPT ![k].value = r.val], k + 1,
                        value, fails)

\* setValueAndNotify of instance j.
setValueAndNotify(area, insts, j, value, fails) ==
    LET rm == remove(area, insts[j].value, fails)
    IN  IF value \in {Null, Undef}
        THEN EmitChange(rm.area, [insts EXCEPT ![j].value = rm.val], 1,
                        value, fails)
        ELSE EmitChange(area, insts, 1, value, fails)

ObsMount ==
    /\ \E j \in SyncInstances, initialValue \in ObsDefaults,
          failGet \in BOOLEAN, failSet \in BOOLEAN :
          /\ ~uss[j].mounted
          /\ LET r1 == initializer(storage, initialValue, failGet, failSet)
                 r2 == initializer(r1.area, initialValue, failGet, failSet)
             IN  /\ storage' = r2.area
                 /\ uss' = [uss EXCEPT ![j] = [mounted |-> TRUE,
                                               initial |-> initialValue,
                                               value |-> r2.val]]
          /\ lastAccess' = Access("read", failGet, ObsHook, j)
    /\ UNCHANGED <<sus, escaped>>
    /\ UNCHANGED StOthers

ObsUnmount ==
    /\ \E j \in SyncInstances :
          /\ uss[j].mounted
          /\ uss' = [uss EXCEPT ![j] = Unmounted]
    /\ lastAccess' = NoAccess
    /\ UNCHANGED <<storage, sus, escaped>>
    /\ UNCHANGED StOthers

ObsSet ==
    /\ \E j \in SyncInstances, v \in AppValues \cup {Null, Undef},
          fails \in BOOLEAN :
          /\ uss[j].mounted
          /\ LET r == setValueAndNotify(storage, uss, j, v, fails)
             IN  /\ storage' = r.area
                 /\ uss' = r.insts
          /\ lastAccess' = IF fails THEN Access("write", TRUE, ObsHook, j)
                           ELSE Written(ObsHook, v)
    /\ UNCHANGED <<sus, escaped>>
    /\ UNCHANGED StOthers

ObsNext == ObsMount \/ ObsUnmount \/ ObsSet

SyncNext == SyncMount \/ SyncRender \/ SyncUnmount \/ SyncSet

JsonNext == JsonMount \/ JsonRender \/ JsonUnmount \/ JsonSet \/ JsonStore

StNext ==
    \/ SusMount \/ SusRender \/ SusUnmount \/ SusSet
    \/ UssMount \/ UssUnmount \/ UssSet \/ UssRemove

\* ------------------------------------------------------------ useClipboard
\* The hook's state as the code reads and sets it.
CbState ==
    [error |-> error, copied |-> copied, copyTimeout |-> copyTimeout,
     timers |-> clipTimers, writes |-> writes, threw |-> copyThrew]
CbStore(s) ==
    /\ error' = s.error
    /\ copied' = s.copied
    /\ copyTimeout' = s.copyTimeout
    /\ clipTimers' = s.timers
    /\ writes' = s.writes
    /\ copyThrew' = s.threw

\* copyTimeout when no timer was set (null); the ids of timers start at 1.
NoTimer == 0
NoError == "null"
NotSupported == "useClipboard: navigator.clipboard is not supported"
\* The reasons a browser rejects writeText with.
Rejections == {"NotAllowedError"}
NoCopy == [kind |-> "none", err |-> NoError, copied |-> FALSE]

\* handleCopyResult of the render in which copy was called: captured is the
\* copyTimeout of that render, id the timer that window.setTimeout returns.
handleCopyResult(s, captured, id, value) ==
    [s EXCEPT !.timers = (IF captured # NoTimer THEN @ \ {captured} ELSE @) \cup {id},
              !.copyTimeout = id,
              !.copied = value]

\* A slip: writeText is called without asking whether there is a clipboard.
copy_NoSupportCheck(s, supported, id) ==
    IF supported
    THEN [s EXCEPT !.writes = @ \cup {[id |-> id, captured |-> s.copyTimeout]}]
    ELSE [s EXCEPT !.threw = TRUE]

\* copy(valueToCopy): the promise of writeText is left to settle.
copy(s, supported, id) ==
    IF supported
    THEN [s EXCEPT !.writes = @ \cup {[id |-> id, captured |-> s.copyTimeout]}]
    ELSE [s EXCEPT !.error = NotSupported]

\* The promise of a writeText settles: .then(() => handleCopyResult(true)),
\* .catch((err) => setError(err)).
onFulfilled(s, w) ==
    handleCopyResult([s EXCEPT !.writes = @ \ {w}], w.captured, w.id, TRUE)
onRejected(s, w, err) ==
    [s EXCEPT !.writes = @ \ {w}, !.error = err]

reset(s) ==
    [s EXCEPT !.copied = FALSE, !.error = NoError,
              !.timers = IF s.copyTimeout # NoTimer THEN @ \ {s.copyTimeout} ELSE @]

CbInit ==
    /\ clipboard \in BOOLEAN
    /\ error = NoError
    /\ copied = FALSE
    /\ copyTimeout = NoTimer
    /\ clipTimers = {}
    /\ writes = {}
    /\ copyThrew = FALSE
    /\ ncopy = 0
    /\ lastCopy = NoCopy
CbIdle == clipboard = TRUE /\ CbInit

CbCopy ==
    /\ ncopy < MaxCopies
    /\ ncopy' = ncopy + 1
    /\ CbStore(copy(CbState, clipboard, ncopy + 1))
    /\ lastCopy' = IF clipboard THEN NoCopy
                   ELSE [kind |-> "unsupported", err |-> NotSupported,
                         copied |-> copied]
    /\ UNCHANGED clipboard
    /\ UNCHANGED CbOthers

CbFulfil ==
    /\ \E w \in writes : CbStore(onFulfilled(CbState, w))
    /\ lastCopy' = NoCopy
    /\ UNCHANGED <<clipboard, ncopy>>
    /\ UNCHANGED CbOthers

CbReject ==
    /\ \E w \in writes, err \in Rejections :
          /\ CbStore(onRejected(CbState, w, err))
          /\ lastCopy' = [kind |-> "rejected", err |-> err, copied |-> copied]
    /\ UNCHANGED <<clipboard, ncopy>>
    /\ UNCHANGED CbOthers

\* A timer set by handleCopyResult expires: setCopied(false).
CbTimer ==
    /\ \E id \in clipTimers :
          /\ clipTimers' = clipTimers \ {id}
          /\ copied' = FALSE
    /\ lastCopy' = NoCopy
    /\ UNCHANGED <<clipboard, error, copyTimeout, writes, copyThrew, ncopy>>
    /\ UNCHANGED CbOthers

CbReset ==
    /\ CbStore(reset(CbState))
    /\ lastCopy' = NoCopy
    /\ UNCHANGED <<clipboard, ncopy>>
    /\ UNCHANGED CbOthers

CbNext == CbCopy \/ CbFulfil \/ CbReject \/ CbTimer \/ CbReset

\* -------------------------------------- useThrottledCallbackWithClearTimeout
\* The refs of the hook as the code reads and sets them.
ThState ==
    [active |-> active, latestIn |-> latestInArgs, latestOut |-> latestOutArgs,
     timeoutRef |-> timeoutRef, timers |-> thTimers, log |-> tlog]
ThStore(s) ==
    /\ active' = s.active
    /\ latestInArgs' = s.latestIn
    /\ latestOutArgs' = s.latestOut
    /\ timeoutRef' = s.timeoutRef
    /\ thTimers' = s.timers
    /\ tlog' = s.log

\* The args of a call are its array, told apart by the number of the call;
\* the refs start undefined.
NoArgs == 0
ThEv(op, arg) == [op |-> op, t |-> clock, arg |-> arg]
ThInvocations(log) == Cardinality({i \in DOMAIN log : log[i].op = "invoke"})

\* A slip: the throttle is left open after an invocation.
callThrottledCallback_StaysActive(s, args) ==
    [s EXCEPT !.log = Append(@, ThEv("invoke", args)),
              !.latestIn = args,
              !.latestOut = args]

\* handleCallback(...args), and the refs after it.
callThrottledCallback(s, args) ==
    [s EXCEPT !.log = Append(@, ThEv("invoke", args)),
              !.latestIn = args,
              !.latestOut = args,
              !.active = FALSE]

\* timeoutRef.current = window.setTimeout(timerCallback, waitRef.current);
\* the id is the number of timers set so far.
throttleSetTimeout(s) ==
    LET id == ThInvocations(s.log)
    IN  [s EXCEPT !.timers = @ \cup {[id |-> id, due |-> clock + Wait]},
                  !.timeoutRef = id]

timerCallback(s) ==
    IF s.latestIn # NoArgs /\ s.latestIn # s.latestOut
    THEN throttleSetTimeout(callThrottledCallback(s, s.latestIn))
    ELSE [s EXCEPT !.active = TRUE]

throttled(s, args) ==
    IF s.active
    THEN throttleSetTimeout(callThrottledCallback(s, args))
    ELSE [s EXCEPT !.latestIn = args]

\* A slip: the timer is left running.
throttleClearTimeout_KeepsTimer(s) == s

\* The clearTimeout the hook returns: window.clearTimeout(timeoutRef.current)
throttleClearTimeout(s) ==
    [s EXCEPT !.timers = {tm \in @ : tm.id # s.timeoutRef}]

ThNumOps == Cardinality({i \in DOMAIN tlog : tlog[i].op \in {"call", "clear"}})
ThNumCalls == Cardinality({i \in DOMAIN tlog : tlog[i].op = "call"})

ThInit ==
    /\ clock = StartTime
    /\ active = TRUE
    /\ latestInArgs = NoArgs
    /\ latestOutArgs = NoArgs
    /\ timeoutRef = -1
    /\ thTimers = {}
    /\ tlog = <<>>

ThCall ==
    /\ ThNumOps < MaxOps
    /\ LET k == ThNumCalls + 1
       IN  ThStore(throttled([ThState EXCEPT !.log = Append(@, ThEv("call", k))], k))
    /\ UNCHANGED clock
    /\ UNCHANGED ThOthers

ThClear ==
    /\ ThNumOps < MaxOps
    /\ ThStore(throttleClearTimeout(
                  [ThState EXCEPT !.log = Append(@, ThEv("clear", 0))]))
    /\ UNCHANGED clock
    /\ UNCHANGED ThOthers

\* A timer that is due runs timerCallback.
ThTimer ==
    /\ \E tm \in thTimers :
          /\ tm.due <= clock
          /\ ThStore(timerCallback(
                [ThState EXCEPT !.timers = @ \ {tm},
                                !.log = Append(@, ThEv("timer", tm.id))]))
    /\ UNCHANGED clock
    /\ UNCHANGED ThOthers

\* A millisecond passes; a timer runs when it is due.
ThTick ==
    /\ clock < StartTime + Horizon
    /\ \A tm \in thTimers : tm.due > clock
    /\ clock' = clock + 1
    /\ UNCHANGED <<active, latestInArgs, latestOutArgs, timeoutRef, thTimers, tlog>>
    /\ UNCHANGED ThOthers

ThNext == ThCall \/ ThClear \/ ThTimer \/ ThTick

\* ---------------------------------------------------- useDebouncedCallback
\* The hook's refs, its options and the browser's timers as one value.
HkState ==
    [leading |-> hookLeading, trailing |-> hookTrailing,
     timeoutRef |-> hookTimeoutRef, lastArgs |-> lastArgsRef,
     leadingCalled |-> leadingCalledRef, timers |-> hookTimers, log |-> hlog]

HkStore(s) ==
    /\ hookLeading' = s.leading
    /\ hookTrailing' = s.trailing
    /\ hookTimeoutRef' = s.timeoutRef
    /\ lastArgsRef' = s.lastArgs
    /\ leadingCalledRef' = s.leadingCalled
    /\ hookTimers' = s.timers
    /\ hlog' = s.log

NoTimeout == 0
EmptyArgs == 0
HkEv(op, arg) == [op |-> op, t |-> hookClock, arg |-> arg]
HkNumCalls(log) == Cardinality({i \in DOMAIN log : log[i].op = "call"})

\* clearTimeout(timeoutRef.current)
hookClearTimeout(s) == [s EXCEPT !.timers = {tm \in @ : tm.id # s.timeoutRef}]

\* invoke, the function the timer runs.
invoke(s) ==
    LET called == IF s.trailing \/ (s.leading /\ ~s.leadingCalled)
                  THEN [s EXCEPT !.log = Append(@, HkEv("invoke", s.lastArgs))]
                  ELSE s
    IN  [called EXCEPT !.leadingCalled = FALSE]

\* The function given to setTimeout.
hookTimerCallback(s) == [invoke(s) EXCEPT !.timeoutRef = NoTimeout]

\* A slip: the timer of the call before is left to run.
debouncedCallback_KeepsTimer(s, args) ==
    LET s1 == [s EXCEPT !.lastArgs = args]
        s3 == IF s1.leading /\ ~s1.leadingCalled
              THEN [s1 EXCEPT !.log = Append(@, HkEv("invoke", args)),
                              !.leadingCalled = TRUE]
              ELSE s1
        id == HkNumCalls(s3.log)
    IN  [s3 EXCEPT !.timers = @ \cup {[id |-> id, due |-> hookClock + Wait]},
                   !.timeoutRef = id]

\* debouncedCallback(...args). The id of the timer it sets is the number of
\* the call.
debouncedCallback(s, args) ==
    LET s1 == [s EXCEPT !.lastArgs = args]
        s2 == IF s1.timeoutRef # NoTimeout THEN hookClearTimeout(s1) ELSE s1
        s3 == IF s2.leading /\ ~s2.leadingCalled
              THEN [s2 EXCEPT !.log = Append(@, HkEv("invoke", args)),
                              !.leadingCalled = TRUE]
              ELSE s2
        id == HkNumCalls(s3.log)
    IN  [s3 EXCEPT !.timers = @ \cup {[id |-> id, due |-> hookClock + Wait]},
                   !.timeoutRef = id]

\* A slip: cancel only forgets the leading call.
hookCancel_KeepsTimer(s) == [s EXCEPT !.leadingCalled = FALSE]

\* cancel()
hookCancel(s) ==
    LET cleared == IF s.timeoutRef # NoTimeout
                   THEN [hookClearTimeout(s) EXCEPT !.timeoutRef = NoTimeout]
                   ELSE s
    IN  [cleared EXCEPT !.leadingCalled = FALSE]

HkNumOps == Cardinality({i \in DOMAIN hlog : hlog[i].op \in {"call", "cancel"}})

\* The refs after the first render, under the default options.
HkIdle ==
    /\ hookClock = StartTime
    /\ hookLeading = FALSE
    /\ hookTrailing = TRUE
    /\ hookTimeoutRef = NoTimeout
    /\ lastArgsRef = EmptyArgs
    /\ leadingCalledRef = FALSE
    /\ hookTimers = {}
    /\ hlog = <<>>

\* The refs after the first render, under any options.
HkInit ==
    /\ hookClock = StartTime
    /\ hookLeading \in BOOLEAN
    /\ hookTrailing \in BOOLEAN
    /\ hookTimeoutRef = NoTimeout
    /\ lastArgsRef = EmptyArgs
    /\ leadingCalledRef = FALSE
    /\ hookTimers = {}
    /\ hlog = <<>>

HkCall ==
    /\ HkNumOps < MaxOps
    /\ LET k == HkNumCalls(hlog) + 1
       IN  HkStore(debouncedCallback(
                     [HkState EXCEPT !.log = Append(@, HkEv("call", k))], k))
    /\ UNCHANGED hookClock
    /\ UNCHANGED HkOthers

HkCancel ==
    /\ HkNumOps < MaxOps
    /\ HkStore(hookCancel([HkState EXCEPT !.log = Append(@, HkEv("cancel", 0))]))
    /\ UNCHANGED hookClock
    /\ UNCHANGED HkOthers

\* A timer that is due runs its function.
HkTimer ==
    /\ \E tm \in hookTimers :
          /\ tm.due <= hookClock
          /\ HkStore(hookTimerCallback(
                [HkState EXCEPT !.timers = @ \ {tm},
                                !.log = Append(@, HkEv("timer", tm.id))]))
    /\ UNCHANGED hookClock
    /\ UNCHANGED HkOthers

\* Time passes, when no timer is due.
HkTick ==
    /\ hookClock < StartTime + Horizon
    /\ \A tm \in hookTimers : tm.due > hookClock
    /\ hookClock' = hookClock + 1
    /\ UNCHANGED <<hookLeading, hookTrailing, hookTimeoutRef, lastArgsRef,
                   leadingCalledRef, hookTimers, hlog>>
    /\ UNCHANGED HkOthers

HkNext == HkCall \/ HkCancel \/ HkTimer \/ HkTick

\* ------------------------------------- DebouncedButton, DebouncedIconButton
\* The two components have the same handleClick. A click is named by its
\* number; the function a click gives to setTimeout keeps the disabled prop
\* of the render the click belongs to.
BtnNoTimeout == 0
BtnEv(op, arg) == [op |-> op, t |-> btnClock, arg |-> arg]

\* A slip: the timer of the click before is left to run.
handleClick_KeepsTimer(ref, tms, event, dis) ==
    [ref |-> event,
     timers |-> tms \cup {[id |-> event, due |-> btnClock + Wait, disabled |-> dis]}]

\* handleClick(event); the id of the timer it sets is the number of the click.
handleClick(ref, tms, event, dis) ==
    LET kept == IF ref # BtnNoTimeout THEN {tm \in tms : tm.id # ref} ELSE tms
    IN  [ref |-> event,
         timers |-> kept \cup {[id |-> event, due |-> btnClock + Wait,
                                disabled |-> dis]}]

BtnNumOps == Cardinality({i \in DOMAIN blog : blog[i].op \in {"click", "render"}})
BtnNumClicks == Cardinality({i \in DOMAIN blog : blog[i].op = "click"})

BtnInit ==
    /\ btnClock = StartTime
    /\ btnDisabled = FALSE
    /\ debounceTimeout = BtnNoTimeout
    /\ btnTimers = {}
    /\ blog = <<>>

\* A click on the button; a disabled button receives none.
BtnClick ==
    /\ BtnNumOps < MaxOps
    /\ ~btnDisabled
    /\ LET k == BtnNumClicks + 1
           r == handleClick(debounceTimeout, btnTimers, k, btnDisabled)
       IN  /\ debounceTimeout' = r.ref
           /\ btnTimers' = r.timers
           /\ blog' = Append(blog, BtnEv("click", k))
    /\ UNCHANGED <<btnClock, btnDisabled>>
    /\ UNCHANGED BtnOthers

\* The parent renders the button with another value of disabled.
BtnRender ==
    /\ BtnNumOps < MaxOps
    /\ btnDisabled' = ~btnDisabled
    /\ blog' = Append(blog, BtnEv("render", 0))
    /\ UNCHANGED <<btnClock, debounceTimeout, btnTimers>>
    /\ UNCHANGED BtnOthers

\* A timer that is due runs its function: onClick(event) unless disabled.
BtnTimer ==
    /\ \E tm \in btnTimers :
          /\ tm.due <= btnClock
          /\ btnTimers' = btnTimers \ {tm}
          /\ blog' = IF ~tm.disabled
                     THEN Append(blog, BtnEv("onClick", tm.id))
                     ELSE blog
    /\ UNCHANGED <<btnClock, btnDisabled, debounceTimeout>>
    /\ UNCHANGED BtnOthers

\* Time passes, when no timer is due.
BtnTick ==
    /\ btnClock < StartTime + Horizon
    /\ \A tm \in btnTimers : tm.due > btnClock
    /\ btnClock' = btnClock + 1
    /\ UNCHANGED <<btnDisabled, debounceTimeout, btnTimers, blog>>
    /\ UNCHANGED BtnOthers

BtnNext == BtnClick \/ BtnRender \/ BtnTimer \/ BtnTick

\* ----------------------------------------------------------- useTimeoutData
\* timeoutMs is Wait. The id of a timer is the number of the set call whose
\* effect set it.
TdNoTimer == 0
TdEv(op, arg) == [op |-> op, t |-> tdClock, arg |-> arg]
TdNumSets == Cardinality({i \in DOMAIN tdlog : tdlog[i].op = "set"})

\* The effect on [message, timeoutMs], run after a render in which message
\* has changed: what it makes of timerRef.current and the timers.
messageEffect(msg, ref, tms, id) ==
    IF msg = Null THEN [ref |-> ref, timers |-> tms]
    ELSE LET kept == IF ref # TdNoTimer THEN {tm \in tms : tm.id # ref} ELSE tms
         IN  [ref |-> id,
              timers |-> kept \cup {[id |-> id, due |-> tdClock + Wait]}]

TdInit ==
    /\ tdClock = StartTime
    /\ tdMounted = TRUE
    /\ message = Null
    /\ timerRef = TdNoTimer
    /\ tdTimers = {}
    /\ tdlog = <<>>

\* setMessage(v) by the application. A value that is the current one causes
\* no render, and the effect does not run.
TdSet ==
    /\ tdMounted
    /\ Len(tdlog) < MaxOps
    /\ \E v \in AppValues \cup {Null} :
          /\ message' = v
          /\ tdlog' = Append(tdlog, TdEv("set", v))
          /\ IF v # message
             THEN LET r == messageEffect(v, timerRef, tdTimers, TdNumSets + 1)
                  IN  timerRef' = r.ref /\ tdTimers' = r.timers
             ELSE UNCHANGED <<timerRef, tdTimers>>
    /\ UNCHANGED <<tdClock, tdMounted>>
    /\ UNCHANGED TdOthers

\* A timer that is due runs setMessage(null); the effect that follows
\* returns at once.
TdTimer ==
    /\ \E tm \in tdTimers :
          /\ tm.due <= tdClock
          /\ tdTimers' = tdTimers \ {tm}
          /\ message' = Null
    /\ UNCHANGED <<tdClock, tdMounted, timerRef, tdlog>>
    /\ UNCHANGED TdOthers

\* The component unmounts: useUnmount clears the timer.
TdUnmount ==
    /\ tdMounted
    /\ tdMounted' = FALSE
    /\ IF timerRef # TdNoTimer
       THEN /\ tdTimers' = {tm \in tdTimers : tm.id # timerRef}
            /\ timerRef' = TdNoTimer
       ELSE UNCHANGED <<timerRef, tdTimers>>
    /\ UNCHANGED <<tdClock, message, tdlog>>
    /\ UNCHANGED TdOthers

\* Time passes, when no timer is due.
TdTick ==
    /\ tdClock < StartTime + Horizon
    /\ \A tm \in tdTimers : tm.due > tdClock
    /\ tdClock' = tdClock + 1
    /\ UNCHANGED <<tdMounted, message, timerRef, tdTimers, tdlog>>
    /\ UNCHANGED TdOthers

TdNext == TdSet \/ TdTimer \/ TdUnmount \/ TdTick

\* -------------------------------------------------------- useLoadingVisible
\* The inner observable of switchMap is one timer that emits true ("show")
\* or false ("hide"); switchMap drops the one before.
LvNoTimer == [kind |-> "none", due |-> 0]

\* switchMap((loadingTime) => ...): the timer it subscribes to.
switchMap(v, startTime) ==
    IF v > 0 THEN [kind |-> "show", due |-> lvClock + PostponeTime]
    ELSE LET diff == lvClock - startTime
             delayAmount == MinVisibleTime - diff
         IN  [kind |-> "hide",
              due |-> lvClock + (IF delayAmount > 0 THEN delayAmount ELSE 0)]

\* The hook after the first render with paramLoading = l and its effects:
\* loadingTime$.next(...), then the subscription, which gets that value.
LvMount(l) ==
    /\ lvClock = StartTime
    /\ lvMounted = TRUE
    /\ paramLoading = l
    /\ loadingVisible = l
    /\ loadingTime = IF l THEN StartTime ELSE 0
    /\ visibleStartTime = 0
    /\ lvTimer = IF l THEN [kind |-> "show", due |-> StartTime + PostponeTime]
                 ELSE [kind |-> "hide", due |-> StartTime]
    /\ shown = [at |-> IF l THEN StartTime ELSE 0,
                since |-> IF l THEN StartTime ELSE 0]
    /\ lvOps = 0

LvIdle == LvMount(FALSE)
LvInit == \E l \in BOOLEAN : LvMount(l)

\* A render with another value of paramLoading, and the effect on it:
\* loadingTime$.next(paramLoading ? Date.now() : 0), through
\* distinctUntilChanged and switchMap.
LvSetLoading ==
    /\ lvMounted
    /\ lvOps < MaxOps
    /\ lvOps' = lvOps + 1
    /\ paramLoading' = ~paramLoading
    /\ LET v == IF paramLoading' THEN lvClock ELSE 0
       IN  /\ loadingTime' = v
           /\ lvTimer' = IF v # loadingTime THEN switchMap(v, visibleStartTime)
                         ELSE lvTimer
    /\ UNCHANGED <<lvClock, lvMounted, loadingVisible, visibleStartTime, shown>>
    /\ UNCHANGED LvOthers

\* The timer emits: tap, map, and setLoadingVisible of the subscriber.
LvTimer ==
    /\ lvTimer.kind # "none"
    /\ lvTimer.due <= lvClock
    /\ lvTimer' = LvNoTimer
    /\ IF lvTimer.kind = "show"
       THEN /\ visibleStartTime' = lvClock
            /\ loadingVisible' = TRUE
            /\ shown' = IF loadingVisible THEN shown
                        ELSE [at |-> lvClock, since |-> loadingTime]
       ELSE /\ visibleStartTime' = 0
            /\ loadingVisible' = FALSE
            /\ UNCHANGED shown
    /\ UNCHANGED <<lvClock, lvMounted, paramLoading, loadingTime, lvOps>>
    /\ UNCHANGED LvOthers

\* The component unmounts: s1.unsubscribe().
LvUnmount ==
    /\ lvMounted
    /\ lvMounted' = FALSE
    /\ lvTimer' = LvNoTimer
    /\ UNCHANGED <<lvClock, paramLoading, loadingVisible, loadingTime,
                   visibleStartTime, shown, lvOps>>
    /\ UNCHANGED LvOthers

\* Time passes, when the timer is not due.
LvTick ==
    /\ lvClock < StartTime + Horizon
    /\ lvTimer.kind # "none" => lvTimer.due > lvClock
    /\ lvClock' = lvClock + 1
    /\ UNCHANGED <<lvMounted, paramLoading, loadingVisible, loadingTime,
                   visibleStartTime, lvTimer, shown, lvOps>>
    /\ UNCHANGED LvOthers

LvNext == LvSetLoading \/ LvTimer \/ LvUnmount \/ LvTick

\* ------------------------------------------------------ the specifications
InitDebounce == DbInit /\ EmInit /\ ClInit /\ StInit /\ CbIdle /\ ThInit /\ HkIdle /\ BtnInit /\ TdInit /\ LvIdle
SpecDebounce == InitDebounce /\ [][DbNext]_vars

InitEmitter == DbIdle /\ EmInit /\ ClInit /\ StInit /\ CbIdle /\ ThInit /\ HkIdle /\ BtnInit /\ TdInit /\ LvIdle
SpecEmitter == InitEmitter /\ [][EmNext]_vars

InitClosables == DbIdle /\ EmInit /\ ClInit /\ StInit /\ CbIdle /\ ThInit /\ HkIdle /\ BtnInit /\ TdInit /\ LvIdle
SpecClosables == InitClosables /\ [][ClNext]_vars

InitStorage == DbIdle /\ EmInit /\ ClInit /\ StInit /\ CbIdle /\ ThInit /\ HkIdle /\ BtnInit /\ TdInit /\ LvIdle
SpecStorage == InitStorage /\ [][StNext]_vars

InitStorageSync == DbIdle /\ EmInit /\ ClInit /\ StInit /\ CbIdle /\ ThInit /\ HkIdle /\ BtnInit /\ TdInit /\ LvIdle
SpecStorageSync == InitStorageSync /\ [][SyncNext]_vars

InitJsonStorage == DbIdle /\ EmInit /\ ClInit /\ StInit /\ CbIdle /\ ThInit /\ HkIdle /\ BtnInit /\ TdInit /\ LvIdle
SpecJsonStorage == InitJsonStorage /\ [][JsonNext]_vars

InitObservable == DbIdle /\ EmInit /\ ClInit /\ StInit /\ CbIdle /\ ThInit /\ HkIdle /\ BtnInit /\ TdInit /\ LvIdle
SpecObservable == InitObservable /\ [][ObsNext]_vars

InitThrottle == DbIdle /\ EmInit /\ ClInit /\ StInit /\ CbIdle /\ ThInit /\ HkIdle /\ BtnInit /\ TdInit /\ LvIdle
SpecThrottle == InitThrottle /\ [][ThNext]_vars

InitHookDebounce ==
    DbIdle /\ EmInit /\ ClInit /\ StInit /\ CbIdle /\ ThInit /\ HkInit /\ BtnInit /\ TdInit /\ LvIdle
SpecHookDebounce == InitHookDebounce /\ [][HkNext]_vars

InitDebouncedButton ==
    DbIdle /\ EmInit /\ ClInit /\ StInit /\ CbIdle /\ ThInit /\ HkIdle /\ BtnInit /\ TdInit /\ LvIdle
SpecDebouncedButton == InitDebouncedButton /\ [][BtnNext]_vars

InitTimeoutData ==
    /\ DbIdle /\ EmInit /\ ClInit /\ StInit /\ CbIdle /\ ThInit /\ HkIdle
    /\ BtnInit /\ TdInit /\ LvIdle
SpecTimeoutData == InitTimeoutData /\ [][TdNext]_vars

InitLoadingVisible ==
    /\ DbIdle /\ EmInit /\ ClInit /\ StInit /\ CbIdle /\ ThInit /\ HkIdle
    /\ BtnInit /\ TdInit /\ LvInit
SpecLoadingVisible == InitLoadingVisible /\ [][LvNext]_vars


InitClipboard == DbIdle /\ EmInit /\ ClInit /\ StInit /\ CbInit /\ ThInit /\ HkIdle /\ BtnInit /\ TdInit /\ LvIdle
SpecClipboard == InitClipboard /\ [][CbNext]_vars

\* ------------------------------------------------- debounce: the claims
\* Reading the log.
Invokes == {i \in DOMAIN dlog : dlog[i].op = "invoke"}
InvokesOf(k) == {i \in Invokes : dlog[i].arg = k}
CallIdx(k) == CHOOSE i \in DOMAIN dlog : dlog[i].op = "call" /\ dlog[i].arg = k
CallTime(k) == dlog[CallIdx(k)].t
\* The index where the calls after call k begin (the end of the log if none).
NextCallIdx(k) == IF k < NumCalls THEN CallIdx(k + 1) ELSE Len(dlog) + 1
\* What made the invocation at index i: the event right before it.
Cause(i) == dlog[i - 1].op
\* The latest call made before index i (0 if none).
LastCallBefore(i) ==
    Cardinality({j \in 1..(i - 1) : dlog[j].op = "call"})
OpBetween(op, i, j) == \E x \in (i + 1)..(j - 1) : dlog[x].op = op
\* Call k starts a burst: no call in the wait before it, or a cancel since.
StartsBurst(k) ==
    \/ k = 1
    \/ CallTime(k) >= CallTime(k - 1) + Wait
    \/ OpBetween("cancel", CallIdx(k - 1), CallIdx(k))

DefaultOptions == ~leading /\ trailing /\ maxWait = Undefined

\* C1: with the default options a call never invokes func itself; the timer
\* invokes func exactly wait ms after a call, with the arguments of that call,
\* which is the latest call; a call followed by another call less than wait ms
\* later is never invoked, and the last call of a burst is invoked exactly
\* once when wait ms have passed (unless it was cancelled).
C1_TrailingOncePerBurst ==
    DefaultOptions =>
        /\ \A i \in Invokes :
              /\ Cause(i) \in {"timer", "flush"}
              /\ Cause(i) = "timer" =>
                    /\ dlog[i].arg = LastCallBefore(i)
                    /\ dlog[i].t = CallTime(dlog[i].arg) + Wait
        /\ \A k \in 1..NumCalls :
              /\ Cardinality(InvokesOf(k)) <= 1
              /\ (/\ k < NumCalls
                  /\ CallTime(k + 1) < CallTime(k) + Wait
                  /\ ~OpBetween("flush", CallIdx(k), CallIdx(k + 1)))
                 => InvokesOf(k) = {}
              /\ (/\ now > CallTime(k) + Wait
                  /\ k < NumCalls => CallTime(k + 1) > CallTime(k) + Wait
                  /\ ~OpBetween("cancel", CallIdx(k), NextCallIdx(k)))
                 => Cardinality(InvokesOf(k)) = 1

\* A burst of three calls, each less than wait ms after the one before, with
\* no cancel or flush, and the last one invoked by the timer.
C1_Witness ==
    /\ DefaultOptions
    /\ NumCalls >= 3
    /\ \A i \in DOMAIN dlog : dlog[i].op \notin {"cancel", "flush"}
    /\ CallTime(2) < CallTime(1) + Wait
    /\ CallTime(3) < CallTime(2) + Wait
    /\ CallTime(1) < CallTime(3)
    /\ InvokesOf(3) # {}

\* C2: func is never invoked with the arguments of a call that was made
\* before a cancel: no cancel lies between a call and its invocation.
C2_CancelDropsPending ==
    \A i \in Invokes : ~OpBetween("cancel", CallIdx(dlog[i].arg), i)

\* A pending trailing call was cancelled, its wait has passed without an
\* invocation, and a call made after the cancel was invoked.
C2_Witness ==
    /\ trailing /\ ~leading
    /\ \E j \in DOMAIN dlog :
          /\ dlog[j].op = "cancel"
          /\ j > 1 /\ dlog[j - 1].op = "call"
          /\ now > dlog[j - 1].t + Wait
          /\ InvokesOf(dlog[j - 1].arg) = {}
          /\ \E i \in Invokes : i > j

\* The flush at index j finds a trailing call pending: the latest call has
\* been neither invoked nor cancelled.
FlushPending(j) ==
    /\ dlog[j].op = "flush"
    /\ trailing
    /\ LastCallBefore(j) > 0
    /\ ~\E i \in InvokesOf(LastCallBefore(j)) : i < j
    /\ ~OpBetween("cancel", CallIdx(LastCallBefore(j)), j)

\* C3: a flush that finds a trailing call pending invokes func at once with
\* the arguments of the latest call and returns its result, and these
\* arguments are never invoked a second time.
C3_FlushInvokesOnce ==
    \A j \in DOMAIN dlog :
        FlushPending(j) =>
            /\ j < Len(dlog)
            /\ dlog[j + 1] = [op |-> "invoke", t |-> dlog[j].t,
                              arg |-> LastCallBefore(j)]
            /\ InvokesOf(LastCallBefore(j)) = {j + 1}
            /\ j + 1 = Len(dlog) => ret = func(LastCallBefore(j))

\* A flush invoked a pending call, and the timeout that was pending at the
\* flush has expired since.
C3_Witness ==
    \E j \in DOMAIN dlog :
        /\ FlushPending(j)
        /\ InvokesOf(LastCallBefore(j)) = {j + 1}
        /\ \E x \in (j + 2)..Len(dlog) : dlog[x].op = "timer"
        /\ timers = {}

LeadingOnly == leading /\ ~trailing /\ maxWait = Undefined

\* C4: with leading and without trailing every invocation is made by a call,
\* at once and with that call's arguments; the call starts a burst (it is the
\* first call, or comes wait ms or more after the call before it, or after a
\* cancel), and a call that comes more than wait ms after the call before it
\* is invoked.
C4_LeadingOnly ==
    LeadingOnly =>
        /\ \A i \in Invokes :
              /\ dlog[i - 1] = [op |-> "call", t |-> dlog[i].t, arg |-> dlog[i].arg]
              /\ StartsBurst(dlog[i].arg)
        /\ \A k \in 1..NumCalls :
              (k = 1 \/ CallTime(k) > CallTime(k - 1) + Wait)
                 => InvokesOf(k) = {CallIdx(k) + 1}

\* The first call was invoked, a second call within the wait was not, the wait
\* ended without an invocation, and a later call was invoked again.
C4_Witness ==
    /\ LeadingOnly
    /\ NumCalls >= 3
    /\ \A i \in DOMAIN dlog : dlog[i].op \notin {"cancel", "flush"}
    /\ CallTime(2) < CallTime(1) + Wait
    /\ InvokesOf(1) # {} /\ InvokesOf(2) = {} /\ InvokesOf(3) # {}

\* The time of the latest invocation (0 if there was none) and of the call
\* that started the burst of the latest call.
LastInvocationTime ==
    IF Invokes = {} THEN 0
    ELSE dlog[CHOOSE i \in Invokes : \A j \in Invokes : j <= i].t
BurstStartTime ==
    LET k == CHOOSE c \in 1..NumCalls :
                 /\ StartsBurst(c)
                 /\ \A c2 \in (c + 1)..NumCalls : ~StartsBurst(c2)
    IN  CallTime(k)
\* A call is waiting to be invoked: the latest call was neither invoked nor
\* cancelled.
CallPending ==
    /\ NumCalls > 0
    /\ InvokesOf(NumCalls) = {}
    /\ ~OpBetween("cancel", CallIdx(NumCalls), Len(dlog) + 1)

EmitEntries == {i \in DOMAIN elog : elog[i].op = "emit"}
\* The registrations whose listeners emit call eid invoked, in order.
InvokedBy(eid) ==
    LET calls == SelectSeq(elog, LAMBDA x : x.op = "invoke" /\ x.eid = eid)
    IN  [i \in DOMAIN calls |-> calls[i].rid]
HandleOf(rid) == CHOOSE h \in handles : h.rid = rid

\* C6: every emit call (the application's, and a listener's own) invokes the
\* listeners that were registered for its event when it was called, each
\* once, in the order of their registration, with the arguments of that emit
\* call, and no listener that was registered for another event.
C6_EmitInvokesRegistered ==
    /\ \A i \in EmitEntries :
          /\ InvokedBy(elog[i].eid) = elog[i].regs
          /\ \A j \in 1..(Len(elog[i].regs) - 1) :
                elog[i].regs[j] < elog[i].regs[j + 1]
    /\ \A i \in DOMAIN elog :
          elog[i].op = "invoke" =>
              /\ HandleOf(elog[i].rid).event = elog[i].event
              /\ HandleOf(elog[i].rid).fn = elog[i].fn
              /\ \E j \in EmitEntries :
                    /\ j < i
                    /\ elog[j].eid = elog[i].eid
                    /\ elog[j].event = elog[i].event
                    /\ elog[j].args = elog[i].args

\* An emit call found two listeners for its event, one of them registered
\* with once, and a listener registered for the other event.
C6_Witness ==
    \E i \in EmitEntries :
        /\ Len(elog[i].regs) >= 2
        /\ \E j \in DOMAIN elog[i].regs : HandleOf(elog[i].regs[j]).once
        /\ \E h \in handles : h.event # elog[i].event /\ h.rid \in Registered

\* C7: a listener registered with once is invoked at most once in total.
C7_OnceAtMostOnce ==
    \A h \in handles : h.once => invoked[h.rid] <= 1

\* C8: calling the function that on, addListener or once returned removes the
\* registration it was returned for and no other registration.
C8_UnsubscribeOnlyOwn ==
    lastUnsub # NoUnsub => Registered = lastUnsub.before \ {lastUnsub.rid}

\* ------------------------------------------------ Closables: the claims
\* C9: close() invokes every cleanup function that is registered when it is
\* called exactly once and leaves the store empty (count is 0).
C9_CloseRunsAllAndEmpties ==
    lastClose # NoClose =>
        /\ lastClose.called = lastClose.registered
        /\ Len(store) = 0

\* ------------------------------------------- the storage hooks: the claims
\* C10: no exception of the Storage reaches the component; a read that fails
\* makes the hook return its initial value (null when it has none), and a
\* write that fails changes neither the Storage nor what any hook returns.
C10_StorageFailuresSwallowed ==
    /\ ~escaped
    /\ (lastAccess.op = "read" /\ lastAccess.failed) =>
          IF lastAccess.hook = "useStorageState"
          THEN sus[lastAccess.inst].value = sus[lastAccess.inst].initial
          ELSE uss[lastAccess.inst].value = uss[lastAccess.inst].initial
    /\ (lastAccess.op = "write" /\ lastAccess.failed) =>
          /\ storage = lastAccess.storage
          /\ sus = lastAccess.sus
          /\ uss = lastAccess.uss

\* A value is stored, a read of it has failed, and a write has failed.
C10_ReadWitness ==
    /\ lastAccess.op = "read" /\ lastAccess.failed
    /\ lastAccess.hook = "useStorageState"
    /\ storage \in AppValues
    /\ sus[lastAccess.inst].value # storage

C10_Witness ==
    /\ lastAccess.op = "write" /\ lastAccess.failed
    /\ storage # Null
    /\ \E i \in Instances : sus[i].mounted /\ sus[i].value = storage
    /\ \E j \in Instances : uss[j].mounted /\ uss[j].value # Undef

\* C11 as stated: when several instances are mounted on the key, after a
\* setter call of one of them that went through every one of them returns
\* the value written.
C11_AllReturnLastWritten ==
    (/\ lastAccess.op = "write" /\ ~lastAccess.failed
     /\ lastAccess.hook = "useStorageState"
     /\ Cardinality({i \in DOMAIN sus : sus[i].mounted}) >= 2) =>
       \A i \in DOMAIN sus : sus[i].mounted => sus[i].value = lastAccess.arg

\* C11, amended: after a setter call that went through, every mounted
\* instance returns the value written when it is not null, and its own
\* initial value when null was written (the key was removed).
C11_SyncAfterSet ==
    (lastAccess.op = "write" /\ ~lastAccess.failed
        /\ lastAccess.hook = "useStorageState") =>
       \A i \in DOMAIN sus : sus[i].mounted =>
          sus[i].value = IF lastAccess.arg = Null THEN sus[i].initial
                         ELSE lastAccess.arg

\* Two instances with different initial values are mounted, and a setter
\* call has just written a value other than both.
C11_Witness ==
    /\ lastAccess.op = "write" /\ ~lastAccess.failed
    /\ lastAccess.hook = "useStorageState"
    /\ lastAccess.arg = <<"b">>
    /\ \E i, k \in SyncInstances :
          /\ sus[i].mounted /\ sus[k].mounted
          /\ sus[i].initial # sus[k].initial
          /\ sus[i].value = <<"b">> /\ sus[k].value = <<"b">>

\* C12: CODEC_JSON.parse returns null, and throws nothing, for every text
\* that JSON.parse rejects, and a useStorageState instance with this codec
\* that finds such a text stored returns null.
C12_MalformedJsonIsNull ==
    /\ ~escaped
    /\ \A text \in Texts :
          JSON_parse(text, Null).exc =>
             CODEC_JSON_parse(text, Null) = Returned(Null, Null)
    /\ (/\ lastAccess.op = "read" /\ ~lastAccess.failed
        /\ lastAccess.arg # Null
        /\ JSON_parse(lastAccess.arg, Null).exc) =>
          sus[lastAccess.inst].value = Null

\* An instance with an initial value has read a stored text that is no JSON.
C12_Witness ==
    /\ lastAccess.op = "read" /\ ~lastAccess.failed
    /\ lastAccess.arg \in Texts
    /\ Len(lastAccess.arg) = 2
    /\ JSON_parse(lastAccess.arg, Null).exc
    /\ sus[lastAccess.inst].mounted
    /\ sus[lastAccess.inst].initial # Null
    /\ sus[lastAccess.inst].value = Null

\* ---------------------------------------------------- useClipboard: claims
\* C13: copy never throws; when there is no navigator.clipboard, or when
\* writeText rejects, error becomes that error and copied stays what it was.
C13_CopyFailureIsState ==
    /\ ~copyThrew
    /\ lastCopy.kind # "none" =>
          /\ error = lastCopy.err
          /\ copied = lastCopy.copied

\* A copy is rejected after an earlier one succeeded, and one is refused
\* for want of a clipboard.
C13_Witness ==
    /\ lastCopy.kind = "rejected"
    /\ ncopy >= 2
    /\ copied
    /\ error \in Rejections

C13_UnsupportedWitness ==
    /\ lastCopy.kind = "unsupported"
    /\ error = NotSupported
    /\ ~copied

\* --------------------------------- useObservableSessionStorage: the claims
\* C14: after a setter call with a value that is neither null nor undefined,
\* which the Storage accepted, every mounted instance on the key returns
\* that value.
C14_AllReturnValueSet ==
    (/\ lastAccess.op = "write" /\ ~lastAccess.failed
     /\ lastAccess.hook = ObsHook
     /\ lastAccess.arg \notin {Null, Undef}) =>
       \A k \in DOMAIN uss : uss[k].mounted => ObsValue(uss[k]) = lastAccess.arg

\* Two instances are mounted and a setter has written a value that is not
\* the default of either.
C14_Witness ==
    /\ lastAccess.op = "write" /\ ~lastAccess.failed
    /\ lastAccess.hook = ObsHook
    /\ \A k \in SyncInstances :
          /\ uss[k].mounted
          /\ uss[k].initial = <<"a">>
          /\ ObsValue(uss[k]) = <<"b">>

\* C15: after a setter call with null or undefined every mounted instance on
\* the key returns its default value.
C15_ClearReturnsDefault ==
    (/\ lastAccess.op = "write" /\ ~lastAccess.failed
     /\ lastAccess.hook = ObsHook
     /\ lastAccess.arg \in {Null, Undef}) =>
       \A k \in DOMAIN uss : uss[k].mounted => ObsValue(uss[k]) = uss[k].initial

\* ------------------- useThrottledCallbackWithClearTimeout: the claims
\* Reading the log.
ThInvokes == {i \in DOMAIN tlog : tlog[i].op = "invoke"}
ThCalls == {i \in DOMAIN tlog : tlog[i].op = "call"}
ThCallIdx(k) == CHOOSE i \in ThCalls : tlog[i].arg = k
\* The number of the latest call made before index i (0 if none).
ThLastCallBefore(i) == Cardinality({x \in ThCalls : x < i})
\* The calls made in the window that the invocation at index j opened.
ThWindowCalls(j) ==
    {i \in ThCalls : i > j /\ tlog[i].t < tlog[j].t + Wait}
ThTimersRun == \A tm \in thTimers : tm.due > clock
\* No clearTimeout() fell into the window that the invocation at j opened.
ThWindowKept(j) ==
    \A c \in DOMAIN tlog :
       (tlog[c].op = "clear" /\ c > j) => tlog[c].t > tlog[j].t + Wait

\* C16: a call made when the latest invocation is more than wait ms old (or
\* there was none) is invoked at once with its arguments; a call made less
\* than wait ms after an invocation is not invoked at once; and wait ms
\* after an invocation in whose window calls were made the callback is
\* invoked once more, with the arguments of the latest call (unless the
\* timer was cleared in that window).
C16_ImmediateThenTrailing ==
    /\ \A i \in ThCalls :
          (\A j \in ThInvokes : j < i => tlog[j].t + Wait < tlog[i].t) =>
             /\ i + 1 \in ThInvokes
             /\ tlog[i + 1].arg = tlog[i].arg
    /\ \A i \in ThCalls :
          (\E j \in ThInvokes : j < i /\ tlog[i].t < tlog[j].t + Wait) =>
             i + 1 \notin ThInvokes
    /\ \A j \in ThInvokes :
          (/\ ThWindowCalls(j) # {}
           /\ ThWindowKept(j)
           /\ clock >= tlog[j].t + Wait
           /\ ThTimersRun) =>
             \E x \in ThInvokes :
                /\ x > j
                /\ tlog[x].t = tlog[j].t + Wait
                /\ tlog[x].arg = ThLastCallBefore(x)
                /\ \A y \in ThInvokes :
                      (y > j /\ tlog[y].t = tlog[j].t + Wait) => y = x

\* C17: no invocation that follows a clear is for a call made before the
\* clear.
C17_ClearCancelsTrailing ==
    \A c \in DOMAIN tlog : tlog[c].op = "clear" =>
       \A i \in ThInvokes : i > c => ThCallIdx(tlog[i].arg) > c

\* A call was waiting in a window when the timer was cleared, and the time
\* at which the window would have ended has passed.
C17_Witness ==
    \E c \in DOMAIN tlog, j \in ThInvokes :
       /\ tlog[c].op = "clear"
       /\ j < c
       /\ \E i \in ThWindowCalls(j) : i < c
       /\ tlog[c].t < tlog[j].t + Wait
       /\ clock > tlog[j].t + Wait

\* C18: two invocations of the callback are at least wait ms apart.
C18_InvocationsWaitApart ==
    \A i, j \in ThInvokes : i < j => tlog[j].t >= tlog[i].t + Wait

\* An immediate invocation, its trailing one wait ms later, and a third.
C18_Witness ==
    /\ Cardinality(ThInvokes) >= 3
    /\ \E i, j \in ThInvokes :
          /\ i < j
          /\ tlog[i - 1].op = "call"
          /\ tlog[j - 1].op = "timer"
          /\ tlog[j].t = tlog[i].t + Wait

\* ------------------------------------------- useDebouncedCallback: the claims
\* Reading the log.
HkInvokes == {i \in DOMAIN hlog : hlog[i].op = "invoke"}
HkCalls == {i \in DOMAIN hlog : hlog[i].op = "call"}
HkCallIdx(k) == CHOOSE i \in HkCalls : hlog[i].arg = k
\* The call after the call at index i, if there is one.
HkHasNextCall(i) == \E n \in HkCalls : n > i
HkNextCall(i) == CHOOSE n \in HkCalls : n > i /\ \A m \in HkCalls : m > i => n <= m
\* The invocations between the call at index i and the next call.
HkInvokesAfter(i) ==
    {x \in HkInvokes :
        x > i /\ (HkHasNextCall(i) => x < HkNextCall(i))}
\* The call at index i is followed by another less than wait ms later.
HkFollowedClosely(i) ==
    HkHasNextCall(i) /\ hlog[HkNextCall(i)].t < hlog[i].t + Wait
\* The call at index i has waited wait ms with no call and no cancel.
HkSettled(i) ==
    /\ hookClock >= hlog[i].t + Wait
    /\ \A tm \in hookTimers : tm.due > hookClock
    /\ \A c \in DOMAIN hlog :
          (hlog[c].op \in {"call", "cancel"} /\ c > i) =>
             hlog[c].t > hlog[i].t + Wait
HkDefaultOptions == ~hookLeading /\ hookTrailing

\* C19: under the default options a call that is followed by another less
\* than wait ms later is not invoked, and a call that is followed by no call
\* (and no cancel) for more than wait ms, the last call of such a run, is
\* invoked exactly once, with its own arguments, wait ms after it was made.
C19_BurstInvokedOnceWithLastArgs ==
    HkDefaultOptions =>
       \A i \in HkCalls :
          /\ HkFollowedClosely(i) => HkInvokesAfter(i) = {}
          /\ HkSettled(i) =>
                /\ Cardinality(HkInvokesAfter(i)) = 1
                /\ \A x \in HkInvokesAfter(i) :
                      /\ hlog[x].arg = hlog[i].arg
                      /\ hlog[x].t = hlog[i].t + Wait

\* Three calls, each less than wait ms after the one before, and the
\* invocation that follows them.
C19_Witness ==
    /\ HkDefaultOptions
    /\ \E i \in HkCalls :
          /\ hlog[i].arg = 3
          /\ HkFollowedClosely(HkCallIdx(1))
          /\ HkFollowedClosely(HkCallIdx(2))
          /\ HkSettled(i)
          /\ HkInvokesAfter(i) # {}

\* C20: no invocation that follows a cancel() is for a call made before
\* the cancel, whatever the options.
C20_CancelDropsEarlierCalls ==
    \A c \in DOMAIN hlog : hlog[c].op = "cancel" =>
       \A x \in HkInvokes : x > c => HkCallIdx(hlog[x].arg) > c

\* A call was waiting for its timer when cancel() was called, and the time
\* at which the timer would have run has passed.
C20_Witness ==
    \E c \in DOMAIN hlog, i \in HkCalls :
       /\ hlog[c].op = "cancel"
       /\ c = i + 1
       /\ hookTrailing
       /\ hookClock > hlog[i].t + Wait
       /\ HkInvokesAfter(i) = {}

\* C24: when clearTimeout() was called in the window that an invocation
\* opened, a call made more than wait ms after the clear is invoked at once.
C24_CallAfterClearInvokes ==
    \A c \in DOMAIN tlog :
       (/\ tlog[c].op = "clear"
        /\ \E j \in ThInvokes : j < c /\ tlog[c].t < tlog[j].t + Wait) =>
          \A i \in ThCalls :
             (i > c /\ tlog[i].t > tlog[c].t + Wait) =>
                /\ i + 1 \in ThInvokes
                /\ tlog[i + 1].arg = tlog[i].arg

\* The call at index i has no other call within wait ms before or after it,
\* and the wait ms after it have passed.
HkIsolated(i) ==
    /\ \A n \in HkCalls :
          n # i => (hlog[n].t > hlog[i].t + Wait \/ hlog[n].t + Wait < hlog[i].t)
    /\ hookClock > hlog[i].t + Wait

\* C25: whatever the options, the callback is invoked at most once for an
\* isolated call.
C25_IsolatedCallAtMostOnce ==
    \A i \in HkCalls :
       HkIsolated(i) =>
          Cardinality({x \in HkInvokes : hlog[x].arg = hlog[i].arg}) <= 1

\* C26: when a cleanup function that close() calls throws, the functions
\* registered after it are invoked all the same and the store is empty
\* afterwards.
C26_CloseSurvivesThrow ==
    (/\ lastClose # NoClose
     /\ \E i \in DOMAIN lastClose.registered : Throws(lastClose.registered[i])) =>
       /\ \A k \in DOMAIN lastClose.registered :
             \E m \in DOMAIN lastClose.called :
                lastClose.called[m] = lastClose.registered[k]
       /\ store = <<>>

\* ------------------------------------------- DebouncedButton: the claims
\* Reading the log.
BtnClicks == {i \in DOMAIN blog : blog[i].op = "click"}
BtnOnClicks(k) == {x \in DOMAIN blog : blog[x].op = "onClick" /\ blog[x].arg = k}
\* The click at index i is followed by another less than debounce ms later.
BtnFollowedClosely(i) ==
    \E n \in BtnClicks : n > i /\ blog[n].t < blog[i].t + Wait
\* The click at index i has waited debounce ms and more with no other click.
BtnSettled(i) ==
    /\ btnClock >= blog[i].t + Wait
    /\ \A tm \in btnTimers : tm.due > btnClock
    /\ \A n \in BtnClicks : n > i => blog[n].t > blog[i].t + Wait

\* C21: a click that is followed by another less than debounce ms later
\* never reaches onClick, and the last click of such a burst reaches it
\* exactly once, debounce ms after the click.
C21_BurstReachesOnClickOnce ==
    \A i \in BtnClicks :
       /\ BtnFollowedClosely(i) => BtnOnClicks(blog[i].arg) = {}
       /\ BtnSettled(i) =>
             /\ Cardinality(BtnOnClicks(blog[i].arg)) = 1
             /\ \A x \in BtnOnClicks(blog[i].arg) : blog[x].t = blog[i].t + Wait

\* Three clicks, each less than debounce ms after the one before, and the
\* onClick that follows them.
C21_Witness ==
    \E i, j, k \in BtnClicks :
       /\ i < j /\ j < k
       /\ blog[j].t < blog[i].t + Wait
       /\ blog[k].t < blog[j].t + Wait
       /\ BtnSettled(k)
       /\ BtnOnClicks(blog[k].arg) # {}

\* ---------------------------------------------- useTimeoutData: the claims
\* The set calls with a value that is not null, and the latest of them.
TdValueSets == {i \in DOMAIN tdlog : tdlog[i].arg # Null}
TdLatest == CHOOSE i \in TdValueSets : \A j \in TdValueSets : j <= i

\* C22: while the component is mounted, from the moment the latest value
\* was set until timeoutMs have passed the returned value is that value
\* (unless null was set after it), and once timeoutMs have passed since
\* then the returned value is null.
C22_ClearedTimeoutAfterLatest ==
    (tdMounted /\ TdValueSets # {}) =>
       /\ (tdClock >= tdlog[TdLatest].t + Wait
             /\ \A tm \in tdTimers : tm.due > tdClock) => message = Null
       /\ (tdClock < tdlog[TdLatest].t + Wait /\ TdLatest = Len(tdlog)) =>
             message = tdlog[TdLatest].arg

\* -------------------------------------------- useLoadingVisible: the claims
\* C23: whenever the hook returns true, the flag became true at a time when
\* loading had been true, without a break, for postponeTime ms or more.
C23_VisiblePostponed ==
    loadingVisible =>
       /\ shown.since > 0
       /\ shown.at >= shown.since + PostponeTime

====
